---------------------------- MODULE Spec2Model ----------------------------
(***************************************************************************)
(* Model of GpuExecutable's per-device caches                              *)
(* (tensorflow/compiler/xla/service/gpu/gpu_executable.h).                 *)
(*                                                                         *)
(* MutexedGraphExecCache is an LRU cache: a std::list<void*> of graph-exec *)
(* handles, most recently used first, and an unordered_map from a buffer   *)
(* configuration key to a std::list iterator.                              *)
(*                                                                         *)
(* A std::list iterator is modelled by the current position of the node it *)
(* points to (1 is the front): an operation that moves nodes re-indexes    *)
(* the iterators held in the map, which is what a node-based list gives    *)
(* for free.  END is the past-the-end iterator; INVALID is an iterator     *)
(* whose node has been erased (pop_back, remove).  Dereferencing either is *)
(* undefined behaviour and is modelled as a nondeterministic choice: the   *)
(* process faults, or the read yields an arbitrary word (any handle, or    *)
(* GARBAGE, a word that is no handle).                                     *)
(***************************************************************************)
EXTENDS Integers, Sequences, FiniteSets, Bags, TLC

\* Bounds of the model: the largest capacity set_cache_size is called with,
\* and the number of threads calling one cache concurrently.
MaxCacheSize == 3
NumThreads == 2
NumRunners == 2

Threads == 1..NumThreads
Runners == 1..NumRunners
Devices == {"d1", "d2", "d3"}
Contexts == {"ctx1"}
FREE == 0

Keys == {"k1", "k2", "k3"}
Graphs == {"g1", "g2", "g3", "g4"}
nullptr == "nullptr"
GARBAGE == "garbage"

END == 0
INVALID == -1
CacheSizes == 0..MaxCacheSize

VARIABLES
  cache_size_,                  \* int64 cache_size_
  gpu_exec_graphs_,             \* std::list<void*>, front first
  gpu_key_to_exec_graphs_map_,  \* unordered_map<KeyType, list iterator>
  crashed,                      \* undefined behaviour ended the process
  lastPut,                      \* history: the handle last Put under a key,
                                \* for the keys whose entry is still listed
  recency,                      \* history: the listed handles, the one most
                                \* recently Put or returned by a Get first
  last,                         \* observation of the last completed call
  gpu_context_,                 \* GpuContext* gpu_context_
  exec_graph_cache_mu_,         \* the thread holding the mutex, or FREE
  pc,                           \* where each thread is in its call
  frame,                        \* each thread's call: arguments and locals
  snap,                         \* history: the cache as the thread locked it
  can_use_gpu_graph_capture_,   \* bool can_use_gpu_graph_capture_
  module_handle_mutex_,         \* the run holding the mutex, or FREE
  module_handles_,              \* map<StreamExecutor*, ScopedModuleHandle>
  module_globals_,              \* map<StreamExecutor*, BufferAllocTo...Map>
  run,                          \* each concurrent Run: position and locals
  loads,                        \* history: binary loads per device
  graphBody,                    \* what each captured graph replays
  results,                      \* absl::Span<const AutotuneResult> results
  determinism,                  \* what RequireCuDNNDeterminism() answers
  algo,                         \* se::dnn::AlgorithmConfig* algo
  idx,                          \* int* idx
  idx_no_scratch,               \* int* idx_no_scratch
  status,                       \* the selector called and what it returned
  TF_DISABLE_RZ_CHECK,          \* the environment variable of that name
  rz_allocation_failure_logged, \* static std::once_flag of line 47
  failure_logged,               \* static std::once_flag of line 68, one per
                                \* instantiation of CheckRedzones<T>: the
                                \* instantiations whose flag is set
  log,                          \* bag of the kinds of message logged so far
  rz,                           \* observation of the last redzone call
  used,                         \* history: the handles Put so far
  released                      \* history: bag of the handles whose graph
                                \* was destroyed

cacheVars == <<cache_size_, gpu_exec_graphs_, gpu_key_to_exec_graphs_map_,
               crashed>>
historyVars == <<lastPut, recency, last>>
threadVars == <<gpu_context_, exec_graph_cache_mu_, pc, frame, snap>>

runVars == <<can_use_gpu_graph_capture_, module_handle_mutex_,
            module_handles_, module_globals_, run, loads, graphBody>>

selectVars == <<results, determinism, algo, idx, idx_no_scratch, status>>

redzoneVars == <<TF_DISABLE_RZ_CHECK, rz_allocation_failure_logged,
                failure_logged, log, rz>>

releaseVars == <<used, released>>

utilVars == <<selectVars, redzoneVars, releaseVars>>

vars == <<cacheVars, historyVars, threadVars, runVars, utilVars>>

-----------------------------------------------------------------------------
\* std::list, its iterators and the unordered_map.

Values(list) == {list[i] : i \in 1..Len(list)}

\* list.begin(): the first node, or end() when the list is empty.
Begin(list) == IF list = <<>> THEN END ELSE 1

\* Whether iterator it points to a node of the list.
IsValid(list, it) == it \in 1..Len(list)

\* list.push_front(g), and what it makes of the iterators.
PushFront(list, g) == <<g>> \o list

ItersAfterPushFront(map) ==
  [k \in DOMAIN map |-> IF map[k] >= 1 THEN map[k] + 1 ELSE map[k]]

\* list.back()
Back(list) == list[Len(list)]

\* A pop_back that leaves the last node where it is.
PopBackKeep(list) == list

\* list.pop_back(): the iterators to the last node become invalid.
PopBack(list) == SubSeq(list, 1, Len(list) - 1)

ItersAfterPopBack(map, list) ==
  [k \in DOMAIN map |-> IF map[k] = Len(list) THEN INVALID ELSE map[k]]

\* list.remove(value): erases every element equal to value; the iterators to
\* the erased nodes become invalid.
Remove(list, v) == SelectSeq(list, LAMBDA e : e # v)

ItersAfterRemove(map, list, v) ==
  [k \in DOMAIN map |->
     IF ~IsValid(list, map[k]) THEN map[k]
     ELSE IF list[map[k]] = v THEN INVALID
     ELSE map[k] - Cardinality({q \in 1..map[k] : list[q] = v})]

\* std::find(begin, end, v) # end
Find(list, v) == v \in Values(list)

\* map[key] = it
MapSet(map, key, it) ==
  [k \in (DOMAIN map) \cup {key} |-> IF k = key THEN it ELSE map[k]]

\* map.erase(key)
MapErase(map, key) == [k \in (DOMAIN map) \ {key} |-> map[k]]

\* A comparison that also holds of a list exactly at the capacity.
SizeReaches(size, cache_size) == size >= cache_size

\* gpu_exec_graphs_.size() > cache_size_: size_t against int64, compared
\* as unsigned, so a negative cache_size_ is larger than any size.
SizeExceeds(size, cache_size) ==
  IF cache_size < 0 THEN FALSE ELSE size > cache_size

-----------------------------------------------------------------------------
\* The bodies of MutexedGraphExecCache's methods, as functions of the state.

\* update_cache(key, gpu_exec_graph): the list, the map and the handles
\* passed to GpuDriver::DestroyExecutableGraph, in order.
UpdateCache(list, map, cache_size, key, g) ==
  LET pushed == PushFront(list, g)
      pushedMap == ItersAfterPushFront(map)
      evict == SizeExceeds(Len(pushed), cache_size)
      kept == IF evict THEN PopBack(pushed) ELSE pushed
      keptMap == IF evict THEN ItersAfterPopBack(pushedMap, pushed)
                 ELSE pushedMap
  IN  [list |-> kept,
       map |-> MapSet(keptMap, key, Begin(kept)),
       destroyed |-> IF evict THEN <<Back(pushed)>> ELSE <<>>]

\* The words *(gpu_key_to_exec_graphs_map_[key]) may yield: the node's
\* value for a valid iterator, anything otherwise.
DerefWords(list, it) ==
  IF IsValid(list, it) THEN {list[it]} ELSE Graphs \cup {GARBAGE}

\* GetFound without the promotion: the entry is returned where it is.
GetFoundNoPromote(list, map, key, word) ==
  IF ~Find(list, word)
  THEN [list |-> list, map |-> MapErase(map, key), ret |-> nullptr]
  ELSE [list |-> list, map |-> map, ret |-> word]

\* GetFound that reports every key absent.
GetFoundMiss(list, map, key, word) ==
  [list |-> list, map |-> MapErase(map, key), ret |-> nullptr]

\* get_exec_graph(key) when the key is in the map and the dereference of its
\* iterator yielded word.
GetFound(list, map, key, word) ==
  IF ~Find(list, word)
  THEN [list |-> list, map |-> MapErase(map, key), ret |-> nullptr]
  ELSE LET removed == Remove(list, word)
           removedMap == ItersAfterRemove(map, list, word)
           promoted == PushFront(removed, word)
           promotedMap == ItersAfterPushFront(removedMap)
       IN  [list |-> promoted,
            map |-> MapSet(promotedMap, key, Begin(promoted)),
            ret |-> word]

-----------------------------------------------------------------------------
\* The sequential cache: each call runs to completion under the mutex.

NoCall == [op |-> "none", key |-> "none", graph |-> nullptr, ret |-> nullptr,
           deref |-> "none", destroyed |-> <<>>]

NoFrame == [op |-> "none", key |-> "none", graph |-> nullptr,
            context |-> nullptr, size |-> 0, word |-> nullptr,
            ret |-> nullptr, destroyed |-> <<>>]

NoSnap == [list |-> <<>>, map |-> <<>>, cache_size |-> 0, context |-> nullptr]

\* A Run that has not started.
NoRun == [pc |-> "idle", device |-> "none", key |-> "none",
          result |-> "none", globals |-> <<>>,
          backed |-> FALSE, got |-> nullptr, trace |-> <<>>,
          gets |-> 0, puts |-> 0, out |-> <<>>]

\* The executable's own members, as constructed.
ExecutableInit ==
  /\ module_handle_mutex_ = FREE
  /\ module_handles_ = <<>>
  /\ module_globals_ = <<>>
  /\ run = [r \in Runners |-> NoRun]
  /\ loads = [d \in Devices |-> 0]
  /\ graphBody = <<>>

\* se::dnn::AlgorithmConfig: two optional algorithm descriptions, each held
\* as a sequence of at most one.
NoConfig == [algorithm |-> <<>>, algorithm_no_scratch |-> <<>>]

\* Neither selector has been called.
NoStatus == [algorithm |-> "none", plan |-> "none"]

\* Nothing to select from.
SelectIdle ==
  /\ results = <<>>
  /\ determinism = FALSE
  /\ algo = NoConfig
  /\ idx = -1
  /\ idx_no_scratch = -1
  /\ status = NoStatus

\* The instantiations of CheckRedzones<T> (lines 99-104).
ResultTypes == {"AutotuneResult", "AutotuneExecutionPlanResult"}

\* What the redzone checks log about.
LogKinds == {"allocation_failed", "check_failed", "redzone_modified"}

NoRedzoneCall ==
  [op |-> "none", type |-> "none", buffer |-> <<>>, ret |-> <<>>,
   before |-> <<>>, after |-> <<>>, check |-> "none", died |-> FALSE]

\* A process that has made no redzone call, with the variable unset.
RedzoneIdle ==
  /\ TF_DISABLE_RZ_CHECK = nullptr
  /\ rz_allocation_failure_logged = FALSE
  /\ failure_logged = {}
  /\ log = EmptyBag
  /\ rz = NoRedzoneCall

\* No graph has been destroyed.
ReleaseIdle ==
  /\ used = {}
  /\ released = EmptyBag

UtilIdle == SelectIdle /\ RedzoneIdle /\ ReleaseIdle

\* A cache with nothing in it yet.
CacheEmpty ==
  /\ gpu_exec_graphs_ = <<>>
  /\ gpu_key_to_exec_graphs_map_ = <<>>
  /\ crashed = FALSE
  /\ lastPut = <<>>
  /\ recency = <<>>
  /\ last = NoCall
  /\ gpu_context_ = nullptr
  /\ exec_graph_cache_mu_ = FREE
  /\ pc = [t \in Threads |-> "idle"]
  /\ frame = [t \in Threads |-> NoFrame]
  /\ snap = [t \in Threads |-> NoSnap]

\* The cache as constructed: int64 cache_size_ = 0.
CacheInit == cache_size_ = 0 /\ CacheEmpty

\* The history kept for the keys whose entry is still in the list.
StillListed(history, list, map) ==
  [k \in {j \in DOMAIN history : j \in DOMAIN map /\ IsValid(list, map[j])}
     |-> history[k]]

\* The recency order once handle g is used: g first, the others as they were.
Touch(order, g) == <<g>> \o SelectSeq(order, LAMBDA e : e # g)

\* The recency order without the destroyed handles.
Forget(order, destroyed) ==
  SelectSeq(order, LAMBDA e : \A i \in 1..Len(destroyed) : destroyed[i] # e)

\* A handle the driver hands out for a newly instantiated graph: not one
\* the cache still holds.
FreshHandles(list) == Graphs \ Values(list)

\* The calls as they act on the cache and its history.
PutCall(key, g) ==
  /\ ~crashed
  /\ LET r == UpdateCache(gpu_exec_graphs_, gpu_key_to_exec_graphs_map_,
                          cache_size_, key, g)
     IN  /\ gpu_exec_graphs_' = r.list
         /\ gpu_key_to_exec_graphs_map_' = r.map
         /\ recency' = Forget(Touch(recency, g), r.destroyed)
         /\ last' = [op |-> "update_cache", key |-> key, graph |-> g,
                     ret |-> nullptr, deref |-> "none",
                     destroyed |-> r.destroyed]
  /\ lastPut' = StillListed(MapSet(lastPut, key, g), gpu_exec_graphs_',
                            gpu_key_to_exec_graphs_map_')
  /\ UNCHANGED <<cache_size_, crashed>>

GetMissCall(key) ==
  /\ ~crashed
  /\ key \notin DOMAIN gpu_key_to_exec_graphs_map_
  /\ last' = [NoCall EXCEPT !.op = "get_exec_graph", !.key = key]
  /\ UNCHANGED <<cache_size_, gpu_exec_graphs_, gpu_key_to_exec_graphs_map_,
                 crashed, lastPut, recency>>

GetFoundCall(key) ==
  /\ ~crashed
  /\ key \in DOMAIN gpu_key_to_exec_graphs_map_
  /\ LET it == gpu_key_to_exec_graphs_map_[key]
         valid == IsValid(gpu_exec_graphs_, it)
     IN  \E word \in DerefWords(gpu_exec_graphs_, it) :
           LET r == GetFound(gpu_exec_graphs_, gpu_key_to_exec_graphs_map_,
                             key, word)
           IN  /\ gpu_exec_graphs_' = r.list
               /\ gpu_key_to_exec_graphs_map_' = r.map
               /\ lastPut' = StillListed(lastPut, r.list, r.map)
               /\ recency' = IF r.ret = nullptr THEN recency
                              ELSE Touch(recency, r.ret)
               /\ last' = [NoCall EXCEPT
                             !.op = "get_exec_graph", !.key = key,
                             !.ret = r.ret,
                             !.deref = IF valid THEN "valid" ELSE "invalid"]
  /\ UNCHANGED <<cache_size_, crashed>>

\* The invalid dereference faults.
GetCrashCall(key) ==
  /\ ~crashed
  /\ key \in DOMAIN gpu_key_to_exec_graphs_map_
  /\ ~IsValid(gpu_exec_graphs_, gpu_key_to_exec_graphs_map_[key])
  /\ crashed' = TRUE
  /\ last' = [NoCall EXCEPT !.op = "get_exec_graph", !.key = key,
                            !.deref = "invalid"]
  /\ UNCHANGED <<cache_size_, gpu_exec_graphs_, gpu_key_to_exec_graphs_map_,
                 lastPut, recency>>

update_cache(key, g) ==
  /\ g \in FreshHandles(gpu_exec_graphs_)
  /\ PutCall(key, g)
  /\ UNCHANGED <<threadVars, runVars, utilVars>>

get_exec_graph_miss(key) ==
  GetMissCall(key) /\ UNCHANGED <<threadVars, runVars, utilVars>>

get_exec_graph_found(key) ==
  GetFoundCall(key) /\ UNCHANGED <<threadVars, runVars, utilVars>>

get_exec_graph_crash(key) ==
  GetCrashCall(key) /\ UNCHANGED <<threadVars, runVars, utilVars>>

get_exec_graph(key) ==
  \/ get_exec_graph_miss(key)
  \/ get_exec_graph_found(key)
  \/ get_exec_graph_crash(key)

set_cache_size(cache_size) ==
  /\ ~crashed
  /\ cache_size_' = cache_size
  /\ last' = [NoCall EXCEPT !.op = "set_cache_size"]
  /\ UNCHANGED <<utilVars,
                 gpu_exec_graphs_, gpu_key_to_exec_graphs_map_, crashed,
                 lastPut, recency, threadVars, runVars>>

get_current_cache_size ==
  /\ ~crashed
  /\ last' = [NoCall EXCEPT !.op = "get_current_cache_size",
                            !.ret = Len(gpu_exec_graphs_)]
  /\ UNCHANGED <<utilVars,
                 cache_size_, gpu_exec_graphs_, gpu_key_to_exec_graphs_map_,
                 crashed, lastPut, recency, threadVars, runVars>>

Init ==
  /\ CacheInit /\ ExecutableInit /\ can_use_gpu_graph_capture_ = FALSE
  /\ UtilIdle

Next ==
  \/ \E key \in Keys, g \in Graphs : update_cache(key, g)
  \/ \E key \in Keys : get_exec_graph(key)
  \/ \E cache_size \in CacheSizes : set_cache_size(cache_size)
  \/ get_current_cache_size

Spec == Init /\ [][Next]_vars

\* The cache when every graph put into it has a handle of its own: no handle
\* is handed out twice, and the graphs destroyed are counted.
Destroyed(count, destroyed) ==
  LET gs == {destroyed[i] : i \in 1..Len(destroyed)}
  IN  count (+)
      [g \in gs |-> Cardinality({i \in 1..Len(destroyed) : destroyed[i] = g})]

update_cache_distinct(key, g) ==
  /\ g \notin used
  /\ PutCall(key, g)
  /\ used' = used \cup {g}
  /\ released' = Destroyed(released, last'.destroyed)
  /\ UNCHANGED <<threadVars, runVars, selectVars, redzoneVars>>

DistinctNext ==
  \/ \E key \in Keys, g \in Graphs : update_cache_distinct(key, g)
  \/ \E key \in Keys : get_exec_graph(key)
  \/ \E cache_size \in CacheSizes : set_cache_size(cache_size)

SpecDistinct == Init /\ [][DistinctNext]_vars

-----------------------------------------------------------------------------
\* Reading a step of the sequential cache: which call it was, and with what.

PutStep == last'.op = "update_cache"

GetStep(key) == last'.op = "get_exec_graph" /\ last'.key = key

\* The key is in the index but its iterator points to no node of the list
\* (the node was erased, or the iterator is end()).
Stale(key) ==
  /\ key \in DOMAIN gpu_key_to_exec_graphs_map_
  /\ ~IsValid(gpu_exec_graphs_, gpu_key_to_exec_graphs_map_[key])

\* The key is in the index and the entry last Put under it is still listed.
Backed(key) == key \in DOMAIN lastPut

\* The list without the node at position p.
Without(list, p) == SubSeq(list, 1, p - 1) \o SubSeq(list, p + 1, Len(list))

-----------------------------------------------------------------------------
\* The cache under concurrent callers: every method takes
\* tensorflow::mutex_lock lock(exec_graph_cache_mu_) first and releases it on
\* return; its body runs statement by statement.

ThreadKeys == {"k1", "k2"}
ThreadGraphs == {"g1", "g2"}
ThreadCacheSizes == {0, 1}

Snapshot == [list |-> gpu_exec_graphs_, map |-> gpu_key_to_exec_graphs_map_,
             cache_size |-> cache_size_, context |-> gpu_context_]

\* The first statement after the lock, per method.
Entry(op) ==
  CASE op = "update_cache" -> "uc_push"
    [] op = "get_exec_graph" -> "ge_find"
    [] op = "set_cache_size" -> "scs_assign"
    [] op = "set_gpu_context" -> "sgc_assign"
    [] op = "get_current_cache_size" -> "gcs_size"

Goto(t, label) == pc' = [pc EXCEPT ![t] = label]

\* A thread calls a method.
Invoke(t, f) ==
  /\ ~crashed
  /\ pc[t] = "idle"
  /\ frame' = [frame EXCEPT ![t] = f]
  /\ Goto(t, "lock")
  /\ UNCHANGED <<utilVars,
                 cacheVars, historyVars, runVars, gpu_context_, exec_graph_cache_mu_,
                 snap>>

\* A handle no other caller holds: not listed, and not on its way in.
FreshFor(t, g) ==
  /\ g \notin Values(gpu_exec_graphs_)
  /\ \A u \in Threads \ {t} : frame[u].graph # g

Call(t) ==
  \/ \E key \in ThreadKeys, g \in ThreadGraphs :
       /\ FreshFor(t, g)
       /\ Invoke(t, [NoFrame EXCEPT !.op = "update_cache", !.key = key,
                                    !.graph = g])
  \/ \E key \in ThreadKeys :
       Invoke(t, [NoFrame EXCEPT !.op = "get_exec_graph", !.key = key])
  \/ \E cache_size \in ThreadCacheSizes :
       Invoke(t, [NoFrame EXCEPT !.op = "set_cache_size",
                                 !.size = cache_size])
  \/ \E gpu_context \in Contexts :
       Invoke(t, [NoFrame EXCEPT !.op = "set_gpu_context",
                                 !.context = gpu_context])
  \/ Invoke(t, [NoFrame EXCEPT !.op = "get_current_cache_size"])

\* A lock that does not wait for the holder.
MutexLockNoWait(t) == exec_graph_cache_mu_' = t

\* tensorflow::mutex_lock lock(exec_graph_cache_mu_): blocks while held.
MutexLock(t) ==
  /\ exec_graph_cache_mu_ = FREE
  /\ exec_graph_cache_mu_' = t

Lock(t) ==
  /\ ~crashed
  /\ pc[t] = "lock"
  /\ MutexLock(t)
  /\ snap' = [snap EXCEPT ![t] = Snapshot]
  /\ Goto(t, Entry(frame[t].op))
  /\ UNCHANGED <<utilVars,
                 cacheVars, historyVars, runVars, gpu_context_, frame>>

\* The lock's destructor, on return.
Unlock(t) ==
  /\ ~crashed
  /\ pc[t] = "unlock"
  /\ exec_graph_cache_mu_' = FREE
  /\ Goto(t, "idle")
  /\ frame' = [frame EXCEPT ![t] = NoFrame]
  /\ snap' = [snap EXCEPT ![t] = NoSnap]
  /\ UNCHANGED <<utilVars, cacheVars, historyVars, runVars, gpu_context_>>

At(t, label) == ~crashed /\ pc[t] = label

\* gpu_exec_graphs_.push_front(gpu_exec_graph); if (size() > cache_size_)
uc_push(t) ==
  /\ At(t, "uc_push")
  /\ gpu_exec_graphs_' = PushFront(gpu_exec_graphs_, frame[t].graph)
  /\ gpu_key_to_exec_graphs_map_'
       = ItersAfterPushFront(gpu_key_to_exec_graphs_map_)
  /\ Goto(t, IF SizeExceeds(Len(gpu_exec_graphs_'), cache_size_)
             THEN "uc_evict" ELSE "uc_assign")
  /\ UNCHANGED <<utilVars,
                 cache_size_, crashed, historyVars, runVars, gpu_context_,
                 exec_graph_cache_mu_, frame, snap>>

\* DestroyExecutableGraph(gpu_context_, &back()); gpu_exec_graphs_.pop_back();
uc_evict(t) ==
  /\ At(t, "uc_evict")
  /\ gpu_exec_graphs_ # <<>>
  /\ frame' = [frame EXCEPT ![t].destroyed = <<Back(gpu_exec_graphs_)>>]
  /\ gpu_exec_graphs_' = PopBack(gpu_exec_graphs_)
  /\ gpu_key_to_exec_graphs_map_'
       = ItersAfterPopBack(gpu_key_to_exec_graphs_map_, gpu_exec_graphs_)
  /\ Goto(t, "uc_assign")
  /\ UNCHANGED <<utilVars,
                 cache_size_, crashed, historyVars, runVars, gpu_context_,
                 exec_graph_cache_mu_, snap>>

\* gpu_key_to_exec_graphs_map_[key] = gpu_exec_graphs_.begin();
uc_assign(t) ==
  /\ At(t, "uc_assign")
  /\ gpu_key_to_exec_graphs_map_'
       = MapSet(gpu_key_to_exec_graphs_map_, frame[t].key,
                Begin(gpu_exec_graphs_))
  /\ Goto(t, "unlock")
  /\ UNCHANGED <<utilVars,
                 cache_size_, gpu_exec_graphs_, crashed, historyVars, runVars,
                 gpu_context_, exec_graph_cache_mu_, frame, snap>>

\* if (gpu_key_to_exec_graphs_map_.find(key) != end()) ... return nullptr;
ge_find(t) ==
  /\ At(t, "ge_find")
  /\ Goto(t, IF frame[t].key \in DOMAIN gpu_key_to_exec_graphs_map_
             THEN "ge_deref" ELSE "unlock")
  /\ UNCHANGED <<utilVars,
                 cacheVars, historyVars, runVars, gpu_context_, exec_graph_cache_mu_,
                 frame, snap>>

\* gpu_key_to_exec_graphs_map_[key]: a key that is not there is inserted with
\* a singular iterator.
MapAt(map, key) == IF key \in DOMAIN map THEN map[key] ELSE INVALID

\* it = std::find(begin(), end(), *(gpu_key_to_exec_graphs_map_[key]));
\* if (it == end())
ge_deref(t) ==
  /\ At(t, "ge_deref")
  /\ LET it == MapAt(gpu_key_to_exec_graphs_map_, frame[t].key)
     IN  \/ \E word \in DerefWords(gpu_exec_graphs_, it) :
              /\ frame' = [frame EXCEPT ![t].word = word]
              /\ Goto(t, IF Find(gpu_exec_graphs_, word)
                         THEN "ge_remove" ELSE "ge_erase")
              /\ UNCHANGED crashed
         \/ /\ ~IsValid(gpu_exec_graphs_, it)
            /\ crashed' = TRUE
            /\ UNCHANGED <<utilVars, frame, pc>>
  /\ UNCHANGED <<utilVars,
                 cache_size_, gpu_exec_graphs_, gpu_key_to_exec_graphs_map_,
                 historyVars, runVars, gpu_context_, exec_graph_cache_mu_, snap>>

\* gpu_key_to_exec_graphs_map_.erase(key); return nullptr;
ge_erase(t) ==
  /\ At(t, "ge_erase")
  /\ gpu_key_to_exec_graphs_map_'
       = MapErase(gpu_key_to_exec_graphs_map_, frame[t].key)
  /\ Goto(t, "unlock")
  /\ UNCHANGED <<utilVars,
                 cache_size_, gpu_exec_graphs_, crashed, historyVars, runVars,
                 gpu_context_, exec_graph_cache_mu_, frame, snap>>

\* gpu_exec_graphs_.remove(gpu_exec_graph);
ge_remove(t) ==
  /\ At(t, "ge_remove")
  /\ gpu_exec_graphs_' = Remove(gpu_exec_graphs_, frame[t].word)
  /\ gpu_key_to_exec_graphs_map_'
       = ItersAfterRemove(gpu_key_to_exec_graphs_map_, gpu_exec_graphs_,
                          frame[t].word)
  /\ Goto(t, "ge_push")
  /\ UNCHANGED <<utilVars,
                 cache_size_, crashed, historyVars, runVars, gpu_context_,
                 exec_graph_cache_mu_, frame, snap>>

\* gpu_exec_graphs_.push_front(gpu_exec_graph);
ge_push(t) ==
  /\ At(t, "ge_push")
  /\ gpu_exec_graphs_' = PushFront(gpu_exec_graphs_, frame[t].word)
  /\ gpu_key_to_exec_graphs_map_'
       = ItersAfterPushFront(gpu_key_to_exec_graphs_map_)
  /\ Goto(t, "ge_assign")
  /\ UNCHANGED <<utilVars,
                 cache_size_, crashed, historyVars, runVars, gpu_context_,
                 exec_graph_cache_mu_, frame, snap>>

\* gpu_key_to_exec_graphs_map_[key] = begin(); return gpu_exec_graph;
ge_assign(t) ==
  /\ At(t, "ge_assign")
  /\ gpu_key_to_exec_graphs_map_'
       = MapSet(gpu_key_to_exec_graphs_map_, frame[t].key,
                Begin(gpu_exec_graphs_))
  /\ frame' = [frame EXCEPT ![t].ret = frame[t].word]
  /\ Goto(t, "unlock")
  /\ UNCHANGED <<utilVars,
                 cache_size_, gpu_exec_graphs_, crashed, historyVars, runVars,
                 gpu_context_, exec_graph_cache_mu_, snap>>

\* cache_size_ = cache_size;
scs_assign(t) ==
  /\ At(t, "scs_assign")
  /\ cache_size_' = frame[t].size
  /\ Goto(t, "unlock")
  /\ UNCHANGED <<utilVars,
                 gpu_exec_graphs_, gpu_key_to_exec_graphs_map_, crashed,
                 historyVars, runVars, gpu_context_, exec_graph_cache_mu_, frame,
                 snap>>

\* gpu_context_ = gpu_context;
sgc_assign(t) ==
  /\ At(t, "sgc_assign")
  /\ gpu_context_' = frame[t].context
  /\ Goto(t, "unlock")
  /\ UNCHANGED <<utilVars,
                 cacheVars, historyVars, runVars, exec_graph_cache_mu_, frame, snap>>

\* return gpu_exec_graphs_.size();
gcs_size(t) ==
  /\ At(t, "gcs_size")
  /\ frame' = [frame EXCEPT ![t].size = Len(gpu_exec_graphs_)]
  /\ Goto(t, "unlock")
  /\ UNCHANGED <<utilVars,
                 cacheVars, historyVars, runVars, gpu_context_, exec_graph_cache_mu_,
                 snap>>

MutexNext ==
  \E t \in Threads :
    \/ Call(t)
    \/ Lock(t)
    \/ uc_push(t) \/ uc_evict(t) \/ uc_assign(t)
    \/ ge_find(t) \/ ge_deref(t) \/ ge_erase(t)
    \/ ge_remove(t) \/ ge_push(t) \/ ge_assign(t)
    \/ scs_assign(t) \/ sgc_assign(t) \/ gcs_size(t)
    \/ Unlock(t)

SpecMutex == Init /\ [][MutexNext]_vars

-----------------------------------------------------------------------------
\* GpuExecutable's run (ExecuteAsyncOnStream), over the members the header
\* declares: the compatibility check, ResolveConstantGlobals under
\* module_handle_mutex_, then replay of a cached graph or thunk-by-thunk
\* execution with capture.  Calls on the device's graph cache are whole
\* calls, since they exclude each other.

\* The version the executable was compiled for, and each device's.
gpu_version_ == "sm70"
Capability == [d \in Devices |-> IF d = "d2" THEN "sm80" ELSE "sm70"]

\* The devices of the runs that share the one graph cache followed here: the
\* cache's own device and one the executable was not compiled for.
RunDevices == {"d1", "d2"}

RunKeys == {"k1", "k2"}
RunGraphs == {"g1", "g2"}
RunCacheSizes == {0, 1}

\* thunk_schedule_->TotalOrder()
Schedule == <<"thunk1", "thunk2">>

\* What running thunks against the buffers of a configuration leaves in them.
Output(thunks, key) == [thunks |-> thunks, key |-> key]

\* The constants table a load of the binary on device d resolves: device
\* pointers into that load's module.
Globals(d, load) == [device |-> d, load |-> load]

\* The device's cache is created with the configured capacity.
RunInit ==
  /\ CacheEmpty
  /\ cache_size_ \in RunCacheSizes
  /\ ExecutableInit
  /\ can_use_gpu_graph_capture_ \in BOOLEAN
  /\ UtilIdle

Set(r, f) ==
  /\ ~crashed
  /\ run' = [run EXCEPT ![r] = f]

\* Run(device, buffers): a caller enters with a device and a set of buffers.
RunStart(r, d) ==
  /\ run[r].pc = "idle"
  /\ Set(r, [NoRun EXCEPT !.pc = "check", !.device = d])
  /\ UNCHANGED <<utilVars, cacheVars, historyVars, threadVars,
                 can_use_gpu_graph_capture_, module_handle_mutex_,
                 module_handles_, module_globals_, loads, graphBody>>

\* A check that lets every device through.
RunCheckNoCompare(r) ==
  /\ run[r].pc = "check"
  /\ Set(r, [run[r] EXCEPT !.pc = "resolve_lock"])
  /\ UNCHANGED <<utilVars, cacheVars, historyVars, threadVars,
                 can_use_gpu_graph_capture_, module_handle_mutex_,
                 module_handles_, module_globals_, loads, graphBody>>

\* CheckCompatibilityWithServiceExecutableRunOptions, before anything else.
RunCheck(r) ==
  /\ run[r].pc = "check"
  /\ IF Capability[run[r].device] = gpu_version_
     THEN Set(r, [run[r] EXCEPT !.pc = "resolve_lock"])
     ELSE Set(r, [run[r] EXCEPT !.pc = "done",
                                !.result = "CapabilityMismatch"])
  /\ UNCHANGED <<utilVars, cacheVars, historyVars, threadVars,
                 can_use_gpu_graph_capture_, module_handle_mutex_,
                 module_handles_, module_globals_, loads, graphBody>>

\* A lock that does not wait for the holder.
ModuleHandleMutexLockNoWait(r) == module_handle_mutex_' = r

\* tensorflow::mutex_lock lock(module_handle_mutex_)
ModuleHandleMutexLock(r) ==
  /\ module_handle_mutex_ = FREE
  /\ module_handle_mutex_' = r

\* ResolveConstantGlobals: take the mutex and look the device up; a device
\* seen before yields its table.
ResolveLock(r) ==
  /\ run[r].pc = "resolve_lock"
  /\ ModuleHandleMutexLock(r)
  /\ IF run[r].device \in DOMAIN module_globals_
     THEN Set(r, [run[r] EXCEPT !.pc = "resolve_unlock",
                                !.globals = module_globals_[run[r].device]])
     ELSE Set(r, [run[r] EXCEPT !.pc = "resolve_load"])
  /\ UNCHANGED <<utilVars, cacheVars, historyVars, threadVars,
                 can_use_gpu_graph_capture_, module_handles_,
                 module_globals_, loads, graphBody>>

\* ResolveConstantGlobals: load the binary onto the device.
ResolveLoad(r) ==
  /\ run[r].pc = "resolve_load"
  /\ loads' = [loads EXCEPT ![run[r].device] = @ + 1]
  /\ module_handles_'
       = MapSet(module_handles_, run[r].device, loads'[run[r].device])
  /\ Set(r, [run[r] EXCEPT !.pc = "resolve_constants"])
  /\ UNCHANGED <<utilVars, cacheVars, historyVars, threadVars,
                 can_use_gpu_graph_capture_, module_handle_mutex_,
                 module_globals_, graphBody>>

\* ResolveConstantGlobals: resolve every constant's pointer and keep the
\* table.
ResolveConstants(r) ==
  /\ run[r].pc = "resolve_constants"
  /\ LET d == run[r].device
         table == Globals(d, module_handles_[d])
     IN  /\ module_globals_' = MapSet(module_globals_, d, table)
         /\ Set(r, [run[r] EXCEPT !.pc = "resolve_unlock",
                                  !.globals = table])
  /\ UNCHANGED <<utilVars, cacheVars, historyVars, threadVars,
                 can_use_gpu_graph_capture_, module_handle_mutex_,
                 module_handles_, loads, graphBody>>

\* ResolveConstantGlobals returns: the lock is released.
ResolveUnlock(r) ==
  /\ run[r].pc = "resolve_unlock"
  /\ module_handle_mutex_' = FREE
  /\ Set(r, [run[r] EXCEPT !.pc = "assemble"])
  /\ UNCHANGED <<utilVars, cacheVars, historyVars, threadVars,
                 can_use_gpu_graph_capture_, module_handles_,
                 module_globals_, loads, graphBody>>

\* Buffer assembly: the constants' pointers and the caller's buffers make
\* the allocations of this run, which have a configuration key.
Assemble(r, key) ==
  /\ run[r].pc = "assemble"
  /\ Set(r, [run[r] EXCEPT !.pc = "dispatch", !.key = key])
  /\ UNCHANGED <<utilVars, cacheVars, historyVars, threadVars,
                 can_use_gpu_graph_capture_, module_handle_mutex_,
                 module_handles_, module_globals_, loads, graphBody>>

\* CanUseGpuGraphCapture()
CanUseGpuGraphCapture == can_use_gpu_graph_capture_

\* Dispatch without replay: the thunks are run one by one, nothing is
\* captured.
DispatchPlain(r) ==
  /\ run[r].pc = "dispatch"
  /\ ~CanUseGpuGraphCapture
  /\ Set(r, [run[r] EXCEPT !.pc = "thunks"])
  /\ UNCHANGED <<utilVars, cacheVars, historyVars, threadVars,
                 can_use_gpu_graph_capture_, module_handle_mutex_,
                 module_handles_, module_globals_, loads, graphBody>>

\* Dispatch with replay permitted: get_exec_graph(key) on the device's
\* cache; a handle is replayed, nullptr leads to execution with capture.
Dispatched(r, ret) ==
  run' = [run EXCEPT
            ![r] = [run[r] EXCEPT
                      !.pc = IF ret = nullptr THEN "thunks" ELSE "replay",
                      !.got = ret,
                      !.gets = @ + 1,
                      !.backed = Backed(run[r].key)]]

DispatchGetMiss(r) ==
  /\ ~crashed
  /\ run[r].pc = "dispatch"
  /\ CanUseGpuGraphCapture
  /\ run[r].key \notin DOMAIN gpu_key_to_exec_graphs_map_
  /\ Dispatched(r, nullptr)
  /\ UNCHANGED <<utilVars, cacheVars, historyVars, threadVars,
                 can_use_gpu_graph_capture_, module_handle_mutex_,
                 module_handles_, module_globals_, loads, graphBody>>

DispatchGetFound(r) ==
  /\ ~crashed
  /\ run[r].pc = "dispatch"
  /\ CanUseGpuGraphCapture
  /\ run[r].key \in DOMAIN gpu_key_to_exec_graphs_map_
  /\ \E word \in DerefWords(gpu_exec_graphs_,
                            gpu_key_to_exec_graphs_map_[run[r].key]) :
       LET o == GetFound(gpu_exec_graphs_, gpu_key_to_exec_graphs_map_,
                         run[r].key, word)
       IN  /\ gpu_exec_graphs_' = o.list
           /\ gpu_key_to_exec_graphs_map_' = o.map
           /\ lastPut' = StillListed(lastPut, o.list, o.map)
           /\ Dispatched(r, o.ret)
  /\ UNCHANGED <<utilVars, cache_size_, crashed, recency, last, threadVars,
                 can_use_gpu_graph_capture_, module_handle_mutex_,
                 module_handles_, module_globals_, loads, graphBody>>

DispatchGetCrash(r) ==
  /\ ~crashed
  /\ run[r].pc = "dispatch"
  /\ CanUseGpuGraphCapture
  /\ Stale(run[r].key)
  /\ crashed' = TRUE
  /\ UNCHANGED <<utilVars,
                 cache_size_, gpu_exec_graphs_, gpu_key_to_exec_graphs_map_,
                 historyVars, threadVars, runVars>>

\* The next thunk of the schedule is executed on the stream.
ExecuteThunk(r) ==
  /\ run[r].pc = "thunks"
  /\ Len(run[r].trace) < Len(Schedule)
  /\ Set(r, [run[r] EXCEPT
               !.trace = Append(@, Schedule[Len(run[r].trace) + 1])])
  /\ UNCHANGED <<utilVars, cacheVars, historyVars, threadVars,
                 can_use_gpu_graph_capture_, module_handle_mutex_,
                 module_handles_, module_globals_, loads, graphBody>>

\* All thunks ran and nothing is captured; the stream is waited for and the
\* run has its buffers.
ThunksDone(r) ==
  /\ run[r].pc = "thunks"
  /\ Len(run[r].trace) = Len(Schedule)
  /\ ~CanUseGpuGraphCapture
  /\ Set(r, [run[r] EXCEPT !.pc = "done", !.result = "OK",
                           !.out = Output(run[r].trace, run[r].key)])
  /\ UNCHANGED <<utilVars, cacheVars, historyVars, threadVars,
                 can_use_gpu_graph_capture_, module_handle_mutex_,
                 module_handles_, module_globals_, loads, graphBody>>

\* A run that holds a handle for replay is no longer backed by the cache
\* once that handle is destroyed.
Lose(runs, destroyed) ==
  [u \in Runners |->
     IF runs[u].pc = "replay" /\ destroyed = <<runs[u].got>>
     THEN [runs[u] EXCEPT !.backed = FALSE] ELSE runs[u]]

\* All thunks ran under capture: the captured graph is instantiated and
\* update_cache(key, graph) puts it into the device's cache; the stream is
\* waited for and the run has its buffers.
CapturePut(r) ==
  /\ ~crashed
  /\ run[r].pc = "thunks"
  /\ Len(run[r].trace) = Len(Schedule)
  /\ CanUseGpuGraphCapture
  /\ \E g \in RunGraphs \ Values(gpu_exec_graphs_) :
       LET o == UpdateCache(gpu_exec_graphs_, gpu_key_to_exec_graphs_map_,
                            cache_size_, run[r].key, g)
       IN  /\ gpu_exec_graphs_' = o.list
           /\ gpu_key_to_exec_graphs_map_' = o.map
           /\ lastPut' = StillListed(MapSet(lastPut, run[r].key, g),
                                     o.list, o.map)
           /\ graphBody' = MapSet(graphBody, g,
                                  Output(run[r].trace, run[r].key))
           /\ run' = [Lose(run, o.destroyed) EXCEPT
                        ![r] = [run[r] EXCEPT
                                  !.pc = "done",
                                  !.result = "OK",
                                  !.puts = @ + 1,
                                  !.out = Output(run[r].trace, run[r].key)]]
  /\ UNCHANGED <<utilVars, cache_size_, crashed, recency, last, threadVars,
                 can_use_gpu_graph_capture_, module_handle_mutex_,
                 module_handles_, module_globals_, loads>>

\* What launching handle g does: what the graph now behind g captured; a
\* handle that names no graph does nothing defined.
Launch(g) == IF g \in DOMAIN graphBody THEN graphBody[g] ELSE <<>>

\* The cached graph is launched instead of the thunks; the stream is waited
\* for and the run has its buffers.
Replay(r) ==
  /\ run[r].pc = "replay"
  /\ Set(r, [run[r] EXCEPT !.pc = "done", !.result = "OK",
                           !.out = Launch(run[r].got)])
  /\ UNCHANGED <<utilVars, cacheVars, historyVars, threadVars,
                 can_use_gpu_graph_capture_, module_handle_mutex_,
                 module_handles_, module_globals_, loads, graphBody>>

\* The caller has its result.
RunReturn(r) ==
  /\ run[r].pc = "done"
  /\ Set(r, NoRun)
  /\ UNCHANGED <<utilVars, cacheVars, historyVars, threadVars,
                 can_use_gpu_graph_capture_, module_handle_mutex_,
                 module_handles_, module_globals_, loads, graphBody>>

RunNext ==
  \E r \in Runners :
    \/ \E d \in RunDevices : RunStart(r, d)
    \/ RunCheck(r)
    \/ ResolveLock(r) \/ ResolveLoad(r)
    \/ ResolveConstants(r) \/ ResolveUnlock(r)
    \/ \E key \in RunKeys : Assemble(r, key)
    \/ DispatchPlain(r)
    \/ DispatchGetMiss(r) \/ DispatchGetFound(r) \/ DispatchGetCrash(r)
    \/ ExecuteThunk(r) \/ ThunksDone(r) \/ CapturePut(r)
    \/ Replay(r) \/ RunReturn(r)

SpecRun == RunInit /\ [][RunNext]_vars

\* Runs on every device, of an executable that may not capture graphs: they
\* meet at module_handle_mutex_ only.
DevicesInit ==
  /\ CacheInit
  /\ ExecutableInit
  /\ can_use_gpu_graph_capture_ = FALSE
  /\ UtilIdle

DevicesNext ==
  \E r \in Runners :
    \/ \E d \in Devices : RunStart(r, d)
    \/ RunCheck(r)
    \/ ResolveLock(r) \/ ResolveLoad(r)
    \/ ResolveConstants(r) \/ ResolveUnlock(r)
    \/ Assemble(r, "k1")
    \/ DispatchPlain(r)
    \/ ExecuteThunk(r) \/ ThunksDone(r)
    \/ RunReturn(r)

SpecDevices == DevicesInit /\ [][DevicesNext]_vars

-----------------------------------------------------------------------------
\* Algorithm selection (tensorflow/core/kernels/gpu_utils.cc):
\* BestCudnnConvAlgorithm and BestCudnnConvExecutionPlan pick, from the
\* autotuning results of the candidates, the one to use and the one to use
\* when no scratch memory is to be had.

\* The longest list of results.
MaxResults == 3

\* run_time values: google.protobuf.Duration has seconds and nanos.
Durations == {[seconds |-> 0, nanos |-> 5], [seconds |-> 0, nanos |-> 8],
              [seconds |-> 1, nanos |-> 0]}

NanosPerSecond == 1000000000

\* A conversion that drops the seconds.
FromDurationProtoNanos(d) == d.nanos

\* proto_utils::FromDurationProto: the duration as one length of time.
FromDurationProto(d) == d.seconds * NanosPerSecond + d.nanos

\* AutotuneResult.failure: absent, or a failure of some kind.
NoFailure == "none"
Failures == {NoFailure, "UNKNOWN"}

ScratchBytes == {0, 128}

\* What was measured of a candidate.
Measurements ==
  [failure : Failures, scratch_bytes : ScratchBytes, run_time : Durations]

\* The AutotuneResult of the i-th candidate: its conv() names the algorithm.
Candidate(m, i) ==
  [failure |-> m.failure, scratch_bytes |-> m.scratch_bytes,
   run_time |-> m.run_time,
   conv |-> [algorithm |-> i, tensor_ops_enabled |-> i % 2 = 1]]

\* The span of results a list of measurements stands for.
ResultList(f) == [i \in DOMAIN f |-> Candidate(f[i], i)]

\* A test that finds no failure in any result.
has_failure_never(result) == FALSE

has_failure(result) == result.failure # NoFailure

\* A test that takes every result to need no scratch memory.
zero_scratch_always(result) == TRUE

\* result.scratch_bytes() == 0
zero_scratch(result) == result.scratch_bytes = 0

\* A comparison that also holds of equal run times.
compare_run_times_or_equal(lhs, rhs) ==
  FromDurationProto(lhs.run_time) <= FromDurationProto(rhs.run_time)

\* The lambda of lines 307-311.
compare_run_times(lhs, rhs) ==
  FromDurationProto(lhs.run_time) < FromDurationProto(rhs.run_time)

\* std::min_element's loop: smallest is the position of the least element
\* of those before position i.
RECURSIVE MinElementFrom(_, _, _)
MinElementFrom(c, smallest, i) ==
  IF i > Len(c) THEN smallest
  ELSE MinElementFrom(c,
                      IF compare_run_times(c[i], c[smallest])
                      THEN i ELSE smallest,
                      i + 1)

\* Iterators of a vector are positions, begin() is 1 and end() is one past
\* the last.
VecBegin(c) == 1
VecEnd(c) == Len(c) + 1

\* A search that stops at the first element.
c_min_element_begin(c) == IF c = <<>> THEN VecEnd(c) ELSE VecBegin(c)

\* absl::c_min_element(c, compare_run_times)
c_min_element(c) == IF c = <<>> THEN VecEnd(c) ELSE MinElementFrom(c, 1, 2)

\* A config that was used before.
UsedConfig ==
  [algorithm |-> <<[algorithm |-> 9, tensor_ops_enabled |-> FALSE]>>,
   algorithm_no_scratch |-> <<[algorithm |-> 8, tensor_ops_enabled |-> FALSE]>>]

\* A routine that fails and leaves an empty config.
ConvAlgorithmCleared(rs, deterministic, config) ==
  [status |-> "NotFound", algo |-> NoConfig]

\* BestCudnnConvAlgorithm(results, algo): the status it returns and what it
\* leaves in *algo.
ConvAlgorithm(rs, deterministic, config) ==
  LET \* absl::c_copy_if into an empty vector is SelectSeq
      filtered_results == SelectSeq(rs, LAMBDA r : ~has_failure(r))
      filtered_results_no_scratch ==
        SelectSeq(filtered_results, zero_scratch)
      selected_result ==
        IF ~deterministic THEN c_min_element(filtered_results)
        ELSE VecBegin(filtered_results)
      selected_result_no_scratch ==
        IF ~deterministic THEN c_min_element(filtered_results_no_scratch)
        ELSE VecBegin(filtered_results_no_scratch)
      set_algorithm ==
        [config EXCEPT
           !.algorithm = <<filtered_results[selected_result].conv>>]
      set_algorithm_no_scratch ==
        [set_algorithm EXCEPT
           !.algorithm_no_scratch =
              <<filtered_results_no_scratch[selected_result_no_scratch].conv>>]
  IN  IF filtered_results = <<>>
      THEN [status |-> "NotFound", algo |-> config]
      ELSE [status |-> "OK",
            algo |-> IF selected_result_no_scratch
                          # VecEnd(filtered_results_no_scratch)
                     THEN set_algorithm_no_scratch
                     ELSE set_algorithm]

\* results[i], counted from 0 as the code counts.
ResultAt(rs, i) == rs[i + 1]

\* The loop of BestCudnnConvExecutionPlan from index i on.
RECURSIVE PlanLoop(_, _, _, _)
PlanLoop(rs, i, ix, ix_no_scratch) ==
  IF ~(i < Len(rs)) THEN [idx |-> ix, idx_no_scratch |-> ix_no_scratch]
  ELSE IF has_failure(ResultAt(rs, i))
       THEN PlanLoop(rs, i + 1, ix, ix_no_scratch)
       ELSE PlanLoop(
              rs, i + 1,
              IF \/ ix = -1
                 \/ FromDurationProto(ResultAt(rs, i).run_time)
                      < FromDurationProto(ResultAt(rs, ix).run_time)
              THEN i ELSE ix,
              IF /\ zero_scratch(ResultAt(rs, i))
                 /\ \/ ix_no_scratch = -1
                    \/ FromDurationProto(ResultAt(rs, i).run_time)
                         < FromDurationProto(
                             ResultAt(rs, ix_no_scratch).run_time)
              THEN i ELSE ix_no_scratch)

\* BestCudnnConvExecutionPlan(results, idx, idx_no_scratch): the status it
\* returns and what it leaves in *idx and *idx_no_scratch.
ConvExecutionPlan(rs) ==
  LET out == PlanLoop(rs, 0, -1, -1)
  IN  [status |-> IF out.idx = -1 /\ out.idx_no_scratch = -1
                  THEN "NotFound" ELSE "OK",
       idx |-> out.idx,
       idx_no_scratch |-> out.idx_no_scratch]

\* A caller has results, a policy and outputs that may have been used
\* before.
SelectInputs ==
  /\ \E n \in 0..MaxResults :
       \E f \in [1..n -> Measurements] : results = ResultList(f)
  /\ determinism \in BOOLEAN
  /\ algo \in {NoConfig, UsedConfig}
  /\ idx \in {-1, 7}
  /\ idx_no_scratch = idx
  /\ status = NoStatus

\* se::cuda::RequireCuDNNDeterminism()
RequireCuDNNDeterminism == determinism

BestCudnnConvAlgorithm ==
  /\ status.algorithm = "none"
  /\ LET out == ConvAlgorithm(results, RequireCuDNNDeterminism, algo)
     IN  /\ algo' = out.algo
         /\ status' = [status EXCEPT !.algorithm = out.status]
  /\ UNCHANGED <<cacheVars, historyVars, threadVars, runVars, releaseVars,
                 redzoneVars,
                 results, determinism, idx, idx_no_scratch>>

BestCudnnConvExecutionPlan ==
  /\ status.plan = "none"
  /\ LET out == ConvExecutionPlan(results)
     IN  /\ idx' = out.idx
         /\ idx_no_scratch' = out.idx_no_scratch
         /\ status' = [status EXCEPT !.plan = out.status]
  /\ UNCHANGED <<cacheVars, historyVars, threadVars, runVars, releaseVars,
                 redzoneVars,
                 results, determinism, algo>>

SelectNext == BestCudnnConvAlgorithm \/ BestCudnnConvExecutionPlan

SelectInit ==
  /\ CacheInit /\ ExecutableInit /\ can_use_gpu_graph_capture_ = FALSE
  /\ SelectInputs
  /\ RedzoneIdle
  /\ ReleaseIdle

SpecSelect == SelectInit /\ [][SelectNext]_vars

-----------------------------------------------------------------------------
\* C1: a Put that takes the list over the capacity evicts exactly one entry,
\* the least recently Put or promoted one; a later Get on the evicted key
\* returns nullptr without dereferencing an invalid list position, and a Get
\* on a key whose entry is still listed returns that entry.
C1_Step ==
  /\ (PutStep /\ SizeExceeds(Len(gpu_exec_graphs_) + 1, cache_size_))
       => /\ last'.destroyed = <<Back(Touch(recency, last'.graph))>>
          /\ Len(gpu_exec_graphs_') = Len(gpu_exec_graphs_)
  /\ \A key \in Keys :
       /\ (GetStep(key) /\ Stale(key))
            => /\ last'.ret = nullptr
               /\ last'.deref # "invalid"
               /\ ~crashed'
       /\ (GetStep(key) /\ Backed(key)) => last'.ret = lastPut[key]

C1_EvictionThenGetAbsent == [][C1_Step]_vars

\* C2: with a capacity of at least 1, Put(key, g) puts g at the front and
\* makes the index map key to it; when the list then exceeds the capacity
\* the back entry is destroyed once and removed, and no key of the index
\* refers to the evicted entry any more when Put returns.
C2_Step ==
  (PutStep /\ cache_size_ >= 1) =>
    LET pushed == PushFront(gpu_exec_graphs_, last'.graph)
        evict == SizeExceeds(Len(pushed), cache_size_)
    IN  /\ gpu_exec_graphs_'[1] = last'.graph
        /\ last'.key \in DOMAIN gpu_key_to_exec_graphs_map_'
        /\ gpu_key_to_exec_graphs_map_'[last'.key] = 1
        /\ ~evict => /\ gpu_exec_graphs_' = pushed
                     /\ last'.destroyed = <<>>
        /\ evict => /\ gpu_exec_graphs_' = PopBack(pushed)
                    /\ last'.destroyed = <<Back(pushed)>>
                    /\ \A k \in DOMAIN gpu_key_to_exec_graphs_map_ :
                         (/\ k # last'.key
                          /\ gpu_key_to_exec_graphs_map_[k]
                               = Len(gpu_exec_graphs_))
                           => k \notin DOMAIN gpu_key_to_exec_graphs_map_'

C2_PutPostcondition == [][C2_Step]_vars

\* C3: a Get on a key that is in the index and whose entry is still listed
\* returns the handle last Put under the key, moves it to the front, keeps
\* the order of the other entries and leaves the index mapping the key to the
\* front; the list is always in order of the last Put or Get of its entries,
\* so the entry an over-capacity Put destroys is the least recently used one.
C3_Step ==
  /\ \A key \in Keys :
       (GetStep(key) /\ Backed(key)) =>
         LET p == gpu_key_to_exec_graphs_map_[key]
         IN  /\ last'.ret = lastPut[key]
             /\ last'.deref = "valid"
             /\ ~crashed'
             /\ gpu_exec_graphs_' =
                  <<lastPut[key]>> \o Without(gpu_exec_graphs_, p)
             /\ key \in DOMAIN gpu_key_to_exec_graphs_map_'
             /\ gpu_key_to_exec_graphs_map_'[key] = 1
             /\ lastPut'[key] = lastPut[key]
  /\ gpu_exec_graphs_' = recency'
  /\ (PutStep /\ last'.destroyed # <<>>)
       => last'.destroyed = <<Back(Touch(recency, last'.graph))>>

C3_GetHitPromotes == [][C3_Step]_vars

\* A Get hit on a list of three entries that returned the entry last Put
\* under its key, now at the front, with all three entries indexed.
C3_Witness ==
  /\ last.op = "get_exec_graph"
  /\ last.deref = "valid"
  /\ last.ret # nullptr
  /\ Len(gpu_exec_graphs_) = 3
  /\ gpu_exec_graphs_[1] = last.ret
  /\ last.key \in DOMAIN lastPut
  /\ lastPut[last.key] = last.ret
  /\ Cardinality(DOMAIN lastPut) = 3

\* C4: a Get on a stale key reports absent, erases the key from the index
\* and changes neither the list nor any other index entry; a Get on a key
\* that is not in the index reports absent and changes nothing.
C4_Step ==
  \A key \in Keys :
    /\ (GetStep(key) /\ Stale(key))
         => /\ last'.ret = nullptr
            /\ ~crashed'
            /\ gpu_exec_graphs_' = gpu_exec_graphs_
            /\ gpu_key_to_exec_graphs_map_'
                 = MapErase(gpu_key_to_exec_graphs_map_, key)
    /\ (GetStep(key) /\ key \notin DOMAIN gpu_key_to_exec_graphs_map_)
         => /\ last'.ret = nullptr
            /\ gpu_exec_graphs_' = gpu_exec_graphs_
            /\ gpu_key_to_exec_graphs_map_' = gpu_key_to_exec_graphs_map_

C4_StaleGetCleansUp == [][C4_Step]_vars

\* C5: in every reachable state every index key refers to an entry of the
\* list or is stale, and every entry of the list is referred to by exactly
\* one index key.  (What a Get does with a stale key is C4.)
C5_IndexListConsistent ==
  /\ \A k \in DOMAIN gpu_key_to_exec_graphs_map_ :
       \/ IsValid(gpu_exec_graphs_, gpu_key_to_exec_graphs_map_[k])
       \/ gpu_key_to_exec_graphs_map_[k] \in {END, INVALID}
  /\ \A p \in 1..Len(gpu_exec_graphs_) :
       Cardinality({k \in DOMAIN gpu_key_to_exec_graphs_map_ :
                      gpu_key_to_exec_graphs_map_[k] = p}) = 1

\* C6: after every call the number of listed entries is at most the
\* configured capacity.
C6_CapacityBound == Len(gpu_exec_graphs_) <= cache_size_

-----------------------------------------------------------------------------
\* C7: at most one thread is inside a method of one device's cache at a
\* time, and every call, when it returns, has had exactly the effect of the
\* whole method run alone on the cache as it was when the call took the lock.
Inside(t) == pc[t] \notin {"idle", "lock"}

SameCache(sn) ==
  /\ gpu_exec_graphs_ = sn.list
  /\ gpu_key_to_exec_graphs_map_ = sn.map

Serial(t) ==
  LET f == frame[t]
      sn == snap[t]
  IN  CASE f.op = "update_cache" ->
             LET r == UpdateCache(sn.list, sn.map, sn.cache_size, f.key,
                                  f.graph)
             IN  /\ gpu_exec_graphs_ = r.list
                 /\ gpu_key_to_exec_graphs_map_ = r.map
                 /\ f.destroyed = r.destroyed
                 /\ cache_size_ = sn.cache_size
                 /\ gpu_context_ = sn.context
        [] f.op = "get_exec_graph" ->
             /\ cache_size_ = sn.cache_size
             /\ gpu_context_ = sn.context
             /\ IF f.key \notin DOMAIN sn.map
                THEN SameCache(sn) /\ f.ret = nullptr
                ELSE LET r == GetFound(sn.list, sn.map, f.key, f.word)
                     IN  /\ f.word \in DerefWords(sn.list, sn.map[f.key])
                         /\ gpu_exec_graphs_ = r.list
                         /\ gpu_key_to_exec_graphs_map_ = r.map
                         /\ f.ret = r.ret
        [] f.op = "set_cache_size" ->
             /\ SameCache(sn)
             /\ cache_size_ = f.size
             /\ gpu_context_ = sn.context
        [] f.op = "set_gpu_context" ->
             /\ SameCache(sn)
             /\ cache_size_ = sn.cache_size
             /\ gpu_context_ = f.context
        [] f.op = "get_current_cache_size" ->
             /\ SameCache(sn)
             /\ cache_size_ = sn.cache_size
             /\ gpu_context_ = sn.context
             /\ f.size = Len(sn.list)

C7_MutualExclusion ==
  /\ Cardinality({t \in Threads : Inside(t)}) <= 1
  /\ \A t \in Threads : Inside(t) => exec_graph_cache_mu_ = t
  /\ \A t \in Threads : pc[t] = "unlock" => Serial(t)

\* A call that evicted an entry is about to return while another thread is
\* blocked on the mutex.
C7_Witness ==
  \E t \in Threads, u \in Threads :
    /\ pc[t] = "unlock"
    /\ frame[t].op = "update_cache"
    /\ frame[t].destroyed # <<>>
    /\ gpu_exec_graphs_ # <<>>
    /\ pc[u] = "lock"

-----------------------------------------------------------------------------
\* C8: single-flight constant resolution.  However many runs come to
\* ResolveConstantGlobals on a device, the binary is loaded onto it once and
\* its constants are resolved once; a run is past the load, the resolution
\* or the lookup only while it holds module_handle_mutex_, so the others
\* wait; and every run that has resolved holds the same table, the one kept
\* for the device.
Resolving(r) ==
  run[r].pc \in {"resolve_load", "resolve_constants", "resolve_unlock"}

Resolved(r) ==
  \/ run[r].pc \in {"resolve_unlock", "assemble", "dispatch", "thunks",
                    "replay"}
  \/ run[r].pc = "done" /\ run[r].result = "OK"

C8_SingleFlight ==
  /\ \A d \in Devices : loads[d] <= 1
  /\ \A r \in Runners : Resolving(r) => module_handle_mutex_ = r
  /\ \A r \in Runners :
       Resolved(r) =>
         /\ loads[run[r].device] = 1
         /\ run[r].device \in DOMAIN module_globals_
         /\ run[r].globals = module_globals_[run[r].device]
         /\ run[r].globals = Globals(run[r].device, 1)

\* Two runs on the same device are both past the resolution, one of them
\* still inside ResolveConstantGlobals.
C8_Witness ==
  \E r \in Runners, u \in Runners :
    /\ r # u
    /\ run[r].device = run[u].device
    /\ run[r].pc = "dispatch"
    /\ run[u].pc = "resolve_unlock"
    /\ run[r].globals = run[u].globals

\* C9: capability mismatch.  A run on a device whose capability is not the
\* one the program was compiled for ends with CapabilityMismatch, and it
\* has then loaded no binary, resolved no constants, executed no thunk,
\* produced no output and made no call on the graph cache; the step that
\* refuses the device changes neither cache.
Refused(r) == run[r].result = "CapabilityMismatch"

C9_Inv ==
  /\ \A r \in Runners :
       run[r].pc = "done" /\ Capability[run[r].device] # gpu_version_
         => Refused(r)
  /\ \A r \in Runners :
       Refused(r) =>
         /\ run[r].pc = "done"
         /\ Capability[run[r].device] # gpu_version_
         /\ run[r].globals = <<>>
         /\ run[r].trace = <<>>
         /\ run[r].out = <<>>
         /\ run[r].gets = 0
         /\ run[r].puts = 0
  /\ \A d \in Devices :
       Capability[d] # gpu_version_ =>
         /\ loads[d] = 0
         /\ d \notin DOMAIN module_handles_
         /\ d \notin DOMAIN module_globals_

C9_Step ==
  \A r \in Runners :
    ~Refused(r) /\ Refused(r)' =>
      UNCHANGED <<cacheVars, historyVars, module_handle_mutex_,
                  module_handles_, module_globals_, loads, graphBody>>

C9_CapabilityMismatch == []C9_Inv /\ [][C9_Step]_vars

\* A run was refused while the other device has its constants resolved and
\* the graph cache holds an entry.
C9_Witness ==
  \E r \in Runners :
    /\ Refused(r)
    /\ module_globals_ # <<>>
    /\ gpu_exec_graphs_ # <<>>

\* C10: replay dispatch and reuse.  With replay permitted, a run that finds
\* no entry for its key executes the thunks in schedule order and puts
\* exactly one graph under the key; a run whose key has the entry last put
\* under it still cached, and not destroyed before the launch, replays it:
\* no thunk is executed, nothing is put, and the outputs are those of
\* executing the thunks.  With replay not permitted the graph cache is
\* neither read nor written.
Finished(r) == run[r].pc = "done" /\ run[r].result = "OK"

C10_ReplayDispatch ==
  /\ \A r \in Runners :
       run[r].pc = "thunks" /\ CanUseGpuGraphCapture =>
         /\ run[r].got = nullptr
         /\ run[r].gets = 1
         /\ ~run[r].backed
  /\ \A r \in Runners :
       Finished(r) /\ CanUseGpuGraphCapture /\ run[r].got = nullptr =>
         /\ run[r].trace = Schedule
         /\ run[r].gets = 1
         /\ run[r].puts = 1
         /\ run[r].out = Output(Schedule, run[r].key)
  /\ \A r \in Runners :
       run[r].pc = "replay" /\ run[r].backed =>
         /\ run[r].got \in DOMAIN graphBody
         /\ graphBody[run[r].got] = Output(Schedule, run[r].key)
  /\ \A r \in Runners :
       Finished(r) /\ run[r].backed =>
         /\ run[r].got # nullptr
         /\ run[r].trace = <<>>
         /\ run[r].gets = 1
         /\ run[r].puts = 0
         /\ run[r].out = Output(Schedule, run[r].key)
  /\ ~CanUseGpuGraphCapture =>
       /\ gpu_exec_graphs_ = <<>>
       /\ gpu_key_to_exec_graphs_map_ = <<>>
       /\ graphBody = <<>>
       /\ \A r \in Runners :
            /\ run[r].gets = 0
            /\ run[r].puts = 0
            /\ Finished(r) =>
                 /\ run[r].trace = Schedule
                 /\ run[r].out = Output(Schedule, run[r].key)

\* A run has replayed the graph cached under its key, and the graph is
\* still the most recently used entry of the cache.
C10_Witness ==
  \E r \in Runners :
    /\ Finished(r)
    /\ run[r].backed
    /\ run[r].got # nullptr
    /\ run[r].out = Output(Schedule, run[r].key)
    /\ gpu_exec_graphs_ = <<run[r].got>>

-----------------------------------------------------------------------------
\* The redzone checks of autotuning (tensorflow/core/kernels/gpu_utils.cc):
\* WrapRedzoneBestEffort puts a buffer between guard zones, CheckRedzones
\* looks whether a candidate wrote into them.

\* The most messages of one kind the log is followed for.
MaxMessages == 4

\* Values of the environment variable; nullptr is the unset variable.
EnvValues == {nullptr, "1", "0", "true"}

\* The check that is never disabled.
RedzoneCheckDisabledNever == FALSE

\* RedzoneCheckDisabled()
RedzoneCheckDisabled ==
  TF_DISABLE_RZ_CHECK # nullptr /\ TF_DISABLE_RZ_CHECK = "1"

\* se::DeviceMemoryBase: where it is and how long.
Buffers == {[opaque |-> "b1", size |-> 4], [opaque |-> "b2", size |-> 8]}

\* rz_allocator->AllocateBytes(size): a StatusOr of the memory between the
\* redzones, or of none.
AllocateBytes(size, ok) ==
  [ok |-> ok,
   value |-> IF ok THEN <<[opaque |-> "rz", size |-> size]>> ELSE <<>>]

\* StatusOr::ValueOrDie: the value, or the end of the process.
ValueOrDie(status_or) ==
  [value |-> status_or.value, died |-> ~status_or.ok]

\* std::call_once(flag, log): whether the message is written.
CallOnce(flag) == ~flag

\* The autotune results a check is made on: ones that have no failure and
\* ones that have failed already.
AutotuneResults ==
  {[failure |-> f, buffer_address |-> 0, msg |-> "none"] : f \in Failures}

\* The kind and the buffer a redzone check that found a write reports.
REDZONE_MODIFIED == "REDZONE_MODIFIED"
UserBufferAddress == 4096

\* rz_allocator.CheckRedzones(): the check could not be run, or it ran and
\* found the redzones untouched or written.
CheckOutcomes == {"error", "ok", "modified"}

\* Writes n messages of a kind to the log.
Logged(kind, n) == log (+) [k \in {kind} |-> n]

\* The log is followed while it has room.
Room(kind, n) == CopiesIn(kind, log) + n <= MaxMessages

\* WrapRedzoneBestEffort(rz_allocator, buffer)
WrapRedzoneBestEffort(buffer, alloc_ok) ==
  /\ Room("allocation_failed", 1)
  /\ IF RedzoneCheckDisabled
     THEN /\ rz' = [NoRedzoneCall EXCEPT !.op = "WrapRedzoneBestEffort",
                                         !.buffer = <<buffer>>,
                                         !.ret = <<buffer>>]
          /\ UNCHANGED <<rz_allocation_failure_logged, log>>
     ELSE LET output_rz_or == AllocateBytes(buffer.size, alloc_ok)
          IN  IF ~output_rz_or.ok
              THEN /\ log' = IF CallOnce(rz_allocation_failure_logged)
                             THEN Logged("allocation_failed", 1) ELSE log
                   /\ rz_allocation_failure_logged' = TRUE
                   /\ rz' = [NoRedzoneCall EXCEPT
                               !.op = "WrapRedzoneBestEffort",
                               !.buffer = <<buffer>>,
                               !.check = "allocation_failed",
                               !.ret = <<buffer>>]
              ELSE /\ rz' = [NoRedzoneCall EXCEPT
                               !.op = "WrapRedzoneBestEffort",
                               !.buffer = <<buffer>>,
                               !.check = "allocated",
                               !.ret = ValueOrDie(output_rz_or).value,
                               !.died = ValueOrDie(output_rz_or).died]
                   /\ UNCHANGED <<rz_allocation_failure_logged, log>>
  /\ UNCHANGED <<cacheVars, historyVars, threadVars, runVars, releaseVars,
                 selectVars,
                 TF_DISABLE_RZ_CHECK, failure_logged>>

\* A check that writes nothing into the result.
mutable_failure_none(autotune_result) == autotune_result

\* The writes of lines 81-85 into *autotune_result; its other fields stay.
mutable_failure(autotune_result) ==
  [autotune_result EXCEPT !.failure = REDZONE_MODIFIED,
                          !.buffer_address = UserBufferAddress,
                          !.msg = "RedzoneFailureMsg"]

\* CheckRedzones<T>(rz_allocator, autotune_result), on any result
CheckRedzonesCall(T, autotune_result, outcome) ==
  /\ Room("check_failed", 1)
  /\ Room("redzone_modified", 2)
  /\ LET call == [NoRedzoneCall EXCEPT !.op = "CheckRedzones", !.type = T,
                                       !.before = <<autotune_result>>]
     IN  IF RedzoneCheckDisabled
         THEN /\ rz' = [call EXCEPT !.after = <<autotune_result>>]
              /\ UNCHANGED <<failure_logged, log>>
         ELSE IF outcome = "error"
              THEN /\ log' = IF CallOnce(T \in failure_logged)
                             THEN Logged("check_failed", 1) ELSE log
                   /\ failure_logged' = failure_logged \cup {T}
                   /\ rz' = [call EXCEPT !.after = <<autotune_result>>,
                                         !.check = outcome]
              ELSE IF outcome = "modified"
                   THEN /\ rz' = [call EXCEPT
                                    !.after =
                                       <<mutable_failure(autotune_result)>>,
                                    !.check = outcome]
                        /\ log' = Logged("redzone_modified", 2)
                        /\ UNCHANGED failure_logged
                   ELSE /\ rz' = [call EXCEPT !.after = <<autotune_result>>,
                                              !.check = outcome]
                        /\ UNCHANGED <<failure_logged, log>>
  /\ UNCHANGED <<cacheVars, historyVars, threadVars, runVars, releaseVars,
                 TF_DISABLE_RZ_CHECK, rz_allocation_failure_logged>>

\* CheckRedzones<T>(rz_allocator, autotune_result) on a result of its own
CheckRedzones(T, autotune_result, outcome) ==
  /\ CheckRedzonesCall(T, autotune_result, outcome)
  /\ UNCHANGED selectVars

\* A process starts with the variable set or not.
RedzoneInit ==
  /\ CacheInit /\ ExecutableInit /\ can_use_gpu_graph_capture_ = FALSE
  /\ SelectIdle
  /\ ReleaseIdle
  /\ TF_DISABLE_RZ_CHECK \in EnvValues
  /\ rz_allocation_failure_logged = FALSE
  /\ failure_logged = {}
  /\ log = EmptyBag
  /\ rz = NoRedzoneCall

RedzoneNext ==
  \/ \E buffer \in Buffers, alloc_ok \in BOOLEAN :
       WrapRedzoneBestEffort(buffer, alloc_ok)
  \/ \E T \in ResultTypes, autotune_result \in AutotuneResults,
        outcome \in CheckOutcomes :
       CheckRedzones(T, autotune_result, outcome)

SpecRedzone == RedzoneInit /\ [][RedzoneNext]_vars

-----------------------------------------------------------------------------
\* Autotuning: the redzones are checked on the candidates of a list of
\* results, and the selectors choose among the candidates of that list.

\* The AutotuneResult a candidate is: the failure has a message and a
\* buffer address besides its kind.
AutotuneResultOf(result) ==
  [failure |-> result.failure, buffer_address |-> 0, msg |-> "none",
   scratch_bytes |-> result.scratch_bytes, run_time |-> result.run_time,
   conv |-> result.conv]

\* CheckRedzones<T>(rz_allocator, &results[i]): the failure it writes is
\* the candidate's from then on.
CheckCandidate(i, T, outcome) ==
  /\ i \in 1..Len(results)
  /\ CheckRedzonesCall(T, AutotuneResultOf(results[i]), outcome)
  /\ results' = [results EXCEPT ![i].failure = rz'.after[1].failure]
  /\ UNCHANGED <<determinism, algo, idx, idx_no_scratch, status>>

\* What was measured of a candidate that ran: it has no failure yet, and
\* its run time is one of the short ones.
GuardMeasurements ==
  {m \in Measurements : m.failure = NoFailure /\ m.run_time.seconds = 0}

\* Candidates were measured; nothing was checked or selected yet.
GuardInit ==
  /\ CacheInit /\ ExecutableInit /\ can_use_gpu_graph_capture_ = FALSE
  /\ ReleaseIdle
  /\ \E n \in 0..MaxResults :
       \E f \in [1..n -> GuardMeasurements] : results = ResultList(f)
  /\ determinism \in BOOLEAN
  /\ algo = NoConfig
  /\ idx = -1
  /\ idx_no_scratch = -1
  /\ status = NoStatus
  /\ TF_DISABLE_RZ_CHECK \in {nullptr, "1"}
  /\ rz_allocation_failure_logged = FALSE
  /\ failure_logged = {}
  /\ log = EmptyBag
  /\ rz = NoRedzoneCall

\* The candidates are checked through one instantiation of the template;
\* the other has the same body.
CandidateType == "AutotuneResult"

GuardNext ==
  \/ \E i \in 1..MaxResults, outcome \in CheckOutcomes :
       CheckCandidate(i, CandidateType, outcome)
  \/ BestCudnnConvAlgorithm
  \/ BestCudnnConvExecutionPlan

SpecGuard == GuardInit /\ [][GuardNext]_vars

-----------------------------------------------------------------------------
\* Reading the selectors' inputs and outputs.

\* The positions of the candidates that did not fail, and of those among
\* them that need no scratch memory.
Survivors == {i \in 1..Len(results) : results[i].failure = NoFailure}
ZeroScratchSurvivors == {i \in Survivors : results[i].scratch_bytes = 0}

RunTime(i) == FromDurationProto(results[i].run_time)

\* The first candidate of S in input order, and the first of those of S
\* with the least run time.
First(S) == CHOOSE i \in S : \A j \in S : i <= j
StableMin(S) ==
  CHOOSE i \in S :
    \A j \in S : RunTime(i) < RunTime(j) \/ (RunTime(i) = RunTime(j) /\ i <= j)

AlgorithmCalled == status.algorithm # "none"
PlanCalled == status.plan # "none"

\* The candidate at position i is what the output names.
IsPrimary(i) == algo.algorithm = <<results[i].conv>>
IsNoScratch(i) == algo.algorithm_no_scratch = <<results[i].conv>>

\* C11: empty survivors.  When every candidate of the list has a failure,
\* the empty list included, each selector returns NotFound; when some
\* candidate has none, each returns OK.
C11_EmptySurvivors ==
  /\ AlgorithmCalled =>
       status.algorithm = IF Survivors = {} THEN "NotFound" ELSE "OK"
  /\ PlanCalled =>
       status.plan = IF Survivors = {} THEN "NotFound" ELSE "OK"

\* Both selectors were called on candidates that all failed.
C11_Witness ==
  /\ Len(results) >= 2
  /\ Survivors = {}
  /\ status = [algorithm |-> "NotFound", plan |-> "NotFound"]

\* C12: stable minimum.  When determinism is not required, each selector
\* picks as primary the first of the survivors with the least run time,
\* and as no-scratch choice the first of the zero-scratch survivors with
\* the least run time.
C12_StableMinimum ==
  ~determinism =>
    /\ AlgorithmCalled /\ Survivors # {} => IsPrimary(StableMin(Survivors))
    /\ AlgorithmCalled /\ ZeroScratchSurvivors # {} =>
         IsNoScratch(StableMin(ZeroScratchSurvivors))
    /\ PlanCalled /\ Survivors # {} => idx = StableMin(Survivors) - 1
    /\ PlanCalled /\ ZeroScratchSurvivors # {} =>
         idx_no_scratch = StableMin(ZeroScratchSurvivors) - 1

\* Two zero-scratch survivors tie for the least run time, behind a slower
\* one, and both selectors picked the first of the two.
C12_Witness ==
  /\ ~determinism
  /\ Len(results) = 3
  /\ Survivors = {1, 2, 3}
  /\ ZeroScratchSurvivors = {2, 3}
  /\ RunTime(2) = RunTime(3)
  /\ RunTime(2) < RunTime(1)
  /\ IsPrimary(2) /\ IsNoScratch(2)
  /\ idx = 1 /\ idx_no_scratch = 1

\* C13: scratch partition.  The primary choice is a survivor, whatever its
\* scratch; the no-scratch choice is a survivor with scratch 0 whenever
\* there is one, and never a candidate with other scratch; for
\* [(A, 5, scratch 128), (B, 8, scratch 0)] the primary is A and the
\* no-scratch choice is B.
ScratchExample ==
  /\ Len(results) = 2
  /\ Survivors = {1, 2}
  /\ results[1].scratch_bytes = 128 /\ results[1].run_time.nanos = 5
  /\ results[2].scratch_bytes = 0 /\ results[2].run_time.nanos = 8
  /\ results[1].run_time.seconds = 0 /\ results[2].run_time.seconds = 0

C13_ScratchPartition ==
  /\ AlgorithmCalled /\ Survivors # {} =>
       /\ \E i \in Survivors : IsPrimary(i)
       /\ ZeroScratchSurvivors # {} =>
            \E i \in ZeroScratchSurvivors : IsNoScratch(i)
       /\ \A i \in 1..Len(results) :
            results[i].scratch_bytes # 0 => ~IsNoScratch(i)
       /\ ScratchExample => IsPrimary(1) /\ IsNoScratch(2)
  /\ PlanCalled /\ Survivors # {} =>
       /\ idx + 1 \in Survivors
       /\ ZeroScratchSurvivors # {} =>
            idx_no_scratch + 1 \in ZeroScratchSurvivors
       /\ idx_no_scratch = -1 \/ idx_no_scratch + 1 \in ZeroScratchSurvivors
       /\ ScratchExample => idx = 0 /\ idx_no_scratch = 1

\* Both selectors were called on the example.
C13_Witness ==
  /\ ScratchExample
  /\ AlgorithmCalled /\ PlanCalled
  /\ IsPrimary(1) /\ IsNoScratch(2)
  /\ idx = 0 /\ idx_no_scratch = 1

\* C14: deterministic mode.  When determinism is required, each selector
\* picks the first survivor as primary and the first zero-scratch survivor
\* as no-scratch choice, whatever the run times.
C14_DeterministicMode ==
  determinism =>
    /\ AlgorithmCalled /\ Survivors # {} => IsPrimary(First(Survivors))
    /\ AlgorithmCalled /\ ZeroScratchSurvivors # {} =>
         IsNoScratch(First(ZeroScratchSurvivors))
    /\ PlanCalled /\ Survivors # {} => idx = First(Survivors) - 1
    /\ PlanCalled /\ ZeroScratchSurvivors # {} =>
         idx_no_scratch = First(ZeroScratchSurvivors) - 1

\* C15: optional no-scratch result.  When some candidate survives and no
\* survivor has scratch 0, each selector returns OK with a primary choice
\* and without a no-scratch choice: the config has no no-scratch algorithm,
\* whatever it held before, and idx_no_scratch is -1.
C15_OptionalNoScratch ==
  Survivors # {} /\ ZeroScratchSurvivors = {} =>
    /\ AlgorithmCalled =>
         /\ status.algorithm = "OK"
         /\ \E i \in Survivors : IsPrimary(i)
         /\ algo.algorithm_no_scratch = <<>>
    /\ PlanCalled =>
         /\ status.plan = "OK"
         /\ idx + 1 \in Survivors
         /\ idx_no_scratch = -1

-----------------------------------------------------------------------------
\* C16: log-once rate limit.  Whatever calls of WrapRedzoneBestEffort and
\* CheckRedzones a process makes, each kind of failure of the guard checks
\* (allocation failed, check could not run, redzone modified) is logged at
\* most once.
C16_LogOnce == \A kind \in LogKinds : CopiesIn(kind, log) <= 1

\* C17: graceful degradation.  WrapRedzoneBestEffort returns the caller's
\* buffer when the check is disabled or the allocation failed, and the
\* memory between redzones when it was allocated; CheckRedzones leaves the
\* autotune result as it was when the check is disabled or could not be
\* run; neither ends the process.
CheckIsDisabled == TF_DISABLE_RZ_CHECK = "1"

C17_GracefulDegradation ==
  /\ ~rz.died
  /\ rz.op = "WrapRedzoneBestEffort" =>
       /\ CheckIsDisabled \/ rz.check = "allocation_failed" =>
            rz.ret = rz.buffer
       /\ rz.ret # rz.buffer =>
            /\ ~CheckIsDisabled
            /\ rz.check = "allocated"
            /\ rz.ret = <<[opaque |-> "rz", size |-> rz.buffer[1].size]>>
       /\ ~CheckIsDisabled /\ rz.check = "allocated" =>
            rz.ret # rz.buffer
  /\ rz.op = "CheckRedzones" =>
       /\ CheckIsDisabled \/ rz.check = "error" => rz.after = rz.before
       /\ rz.after # rz.before =>
            ~CheckIsDisabled /\ rz.check = "modified"

\* A check that could not be run left the result alone, after an
\* allocation had failed before.
C17_Witness ==
  /\ rz.op = "CheckRedzones"
  /\ rz.check = "error"
  /\ rz.after = rz.before
  /\ CopiesIn("check_failed", log) = 1
  /\ CopiesIn("allocation_failed", log) = 1

-----------------------------------------------------------------------------
\* C18: lock scope.  No lock spans more than one device: a run that waits
\* for module_handle_mutex_ is kept waiting only by a run on its own
\* device.
C18_LockScope ==
  \A r \in Runners, u \in Runners :
    run[r].pc = "resolve_lock" /\ module_handle_mutex_ = u =>
      run[u].device = run[r].device

-----------------------------------------------------------------------------
\* C19: no use after release.  When every graph put into the cache has a
\* handle of its own, get_exec_graph never returns a handle whose graph
\* was destroyed, no graph is destroyed twice, and a graph is destroyed
\* only by the update_cache that takes its node off the list.
C19_Inv ==
  /\ \A g \in Graphs : CopiesIn(g, released) <= 1
  /\ \A g \in Graphs : BagIn(g, released) => g \notin Values(gpu_exec_graphs_)
  /\ last.op = "get_exec_graph" /\ last.ret # nullptr =>
       /\ last.ret \in Graphs
       /\ ~BagIn(last.ret, released)

C19_Step ==
  released' # released =>
    /\ PutStep
    /\ Len(last'.destroyed) = 1
    /\ released' = released (+) SetToBag({last'.destroyed[1]})
    /\ last'.destroyed[1] \in Values(gpu_exec_graphs_) \cup {last'.graph}
    /\ last'.destroyed[1] \notin Values(gpu_exec_graphs_')

C19_NoUseAfterRelease == []C19_Inv /\ [][C19_Step]_vars

\* A Get that read through an invalid iterator returned a handle, after two
\* graphs were destroyed.
C19_Witness ==
  /\ last.op = "get_exec_graph"
  /\ last.deref = "invalid"
  /\ last.ret # nullptr
  /\ Cardinality({g \in Graphs : CopiesIn(g, released) = 1}) = 2

-----------------------------------------------------------------------------
\* C20: Put/Get round trip.  Right after update_cache(k, e) on a cache of
\* capacity 1 or more, whatever the cache held for k before (nothing, an
\* entry, a stale iterator), get_exec_graph(k) finds k in the index with a
\* valid iterator and returns e.
C20_PutGetRoundTrip ==
  last.op = "update_cache" /\ cache_size_ >= 1 /\ ~crashed =>
    /\ last.key \in DOMAIN gpu_key_to_exec_graphs_map_
    /\ ~Stale(last.key)
    /\ \A word \in DerefWords(gpu_exec_graphs_,
                              gpu_key_to_exec_graphs_map_[last.key]) :
         GetFound(gpu_exec_graphs_, gpu_key_to_exec_graphs_map_, last.key,
                  word).ret = last.graph

\* A key whose entry is still listed was put again, on a full cache: the
\* put evicted another entry and the old entry of the key is still listed.
C20_Witness ==
  /\ last.op = "update_cache"
  /\ cache_size_ >= 2
  /\ last.destroyed # <<>>
  /\ Len(gpu_exec_graphs_) = cache_size_
  /\ \E p \in 2..Len(gpu_exec_graphs_) :
       \A k \in DOMAIN gpu_key_to_exec_graphs_map_ :
         gpu_key_to_exec_graphs_map_[k] # p

-----------------------------------------------------------------------------
\* C21: guard-check failures exclude a candidate.  A candidate on which
\* CheckRedzones detected a modified redzone is marked failed with kind
\* REDZONE_MODIFIED and the buffer address, and a call of
\* BestCudnnConvAlgorithm or BestCudnnConvExecutionPlan never chooses such
\* a candidate, for the primary or the no-scratch slot, whatever its run
\* time and whether determinism is required or not.
Modified(i) == results[i].failure = REDZONE_MODIFIED

C21_Inv ==
  rz.op = "CheckRedzones" /\ rz.check = "modified" =>
    /\ rz.after[1].failure = REDZONE_MODIFIED
    /\ rz.after[1].buffer_address = UserBufferAddress
    /\ \A i \in 1..Len(results) :
         results[i].conv = rz.after[1].conv => Modified(i)

C21_Step ==
  /\ status'.algorithm # status.algorithm =>
       \A i \in 1..Len(results) :
         Modified(i) =>
           /\ algo'.algorithm # <<results[i].conv>>
           /\ algo'.algorithm_no_scratch # <<results[i].conv>>
  /\ status'.plan # status.plan =>
       \A i \in 1..Len(results) :
         Modified(i) => idx' # i - 1 /\ idx_no_scratch' # i - 1

C21_GuardFailureExcludes == []C21_Inv /\ [][C21_Step]_vars

\* The faster of two candidates without scratch had no failure until its
\* redzones were found written, and both selectors chose the slower one.
C21_Witness ==
  /\ Len(results) = 2
  /\ rz.op = "CheckRedzones" /\ rz.check = "modified"
  /\ rz.before[1].failure = NoFailure
  /\ rz.after[1].conv = results[1].conv
  /\ Modified(1)
  /\ results[2].failure = NoFailure
  /\ results[1].scratch_bytes = 0 /\ results[2].scratch_bytes = 0
  /\ RunTime(1) < RunTime(2)
  /\ status = [algorithm |-> "OK", plan |-> "OK"]
  /\ IsPrimary(2) /\ IsNoScratch(2)
  /\ idx = 1 /\ idx_no_scratch = 1

-----------------------------------------------------------------------------
\* C22: selector agreement.  When determinism is not required, on every
\* list of results BestCudnnConvExecutionPlan and BestCudnnConvAlgorithm
\* both fail or both succeed, results[idx] is the candidate
\* BestCudnnConvAlgorithm makes the primary choice, and idx_no_scratch is
\* -1 exactly when BestCudnnConvAlgorithm sets no no-scratch algorithm,
\* and otherwise results[idx_no_scratch] is its no-scratch choice.

\* BestCudnnConvAlgorithm wrote a candidate of the list into the
\* no-scratch slot: what the slot held before names no candidate.
SetsNoScratch == \E i \in 1..Len(results) : IsNoScratch(i)

C22_SelectorAgreement ==
  ~determinism /\ AlgorithmCalled /\ PlanCalled =>
    /\ status.algorithm = status.plan
    /\ status.plan = "OK" =>
         /\ idx + 1 \in 1..Len(results)
         /\ IsPrimary(idx + 1)
         /\ idx_no_scratch = -1 <=> ~SetsNoScratch
         /\ idx_no_scratch # -1 =>
              /\ idx_no_scratch + 1 \in 1..Len(results)
              /\ IsNoScratch(idx_no_scratch + 1)

\* Both selectors were called, without determinism, on a failed candidate
\* followed by the fastest one, which needs scratch, and one without
\* scratch: the two agree on the second as primary and the third as
\* no-scratch choice.
C22_Witness ==
  /\ ~determinism
  /\ Len(results) = 3
  /\ Survivors = {2, 3}
  /\ ZeroScratchSurvivors = {3}
  /\ RunTime(2) < RunTime(3)
  /\ status = [algorithm |-> "OK", plan |-> "OK"]
  /\ IsPrimary(2) /\ IsNoScratch(3)
  /\ idx = 1 /\ idx_no_scratch = 2

-----------------------------------------------------------------------------
\* C23: selection validity.  Whenever a selector succeeds, the primary
\* choice is a candidate of the input without failure, the no-scratch
\* choice, when the call made one, is a candidate of the input without
\* failure and with scratch 0, and when determinism is not required the
\* primary's run time is no longer than the no-scratch choice's and than
\* any other unfailed candidate's; for BestCudnnConvExecutionPlan success
\* implies 0 <= idx < number of results, and idx_no_scratch is -1 or a
\* valid index.

\* The run time of candidate i is no longer than that of candidate j, read
\* off the seconds and nanos of the two durations.
NotLonger(i, j) ==
  LET a == results[i].run_time
      b == results[j].run_time
  IN  a.seconds < b.seconds \/ (a.seconds = b.seconds /\ a.nanos <= b.nanos)

\* The no-scratch slot holds nothing, or what a used config held, or a
\* candidate of the list.
NoScratchSlots ==
  {<<>>, UsedConfig.algorithm_no_scratch}
    \cup {<<results[i].conv>> : i \in ZeroScratchSurvivors}

-----------------------------------------------------------------------------
\* C24: output on selection failure.  A call of BestCudnnConvAlgorithm that
\* returns NotFound leaves the caller's config as it was, the primary and
\* the no-scratch algorithm both; after a call of
\* BestCudnnConvExecutionPlan that returns NotFound idx and idx_no_scratch
\* are -1, whatever they were before.
C24_Inv == status.plan = "NotFound" => idx = -1 /\ idx_no_scratch = -1

C24_Step ==
  /\ status.algorithm = "none" /\ status'.algorithm = "NotFound" =>
       algo' = algo
  /\ status.plan = "none" /\ status'.plan = "NotFound" =>
       idx' = -1 /\ idx_no_scratch' = -1

C24_OutputOnFailure == []C24_Inv /\ [][C24_Step]_vars

\* Both selectors returned NotFound on two failed candidates: the config
\* still holds what it held from an earlier use, and the indices are -1.
C24_Witness ==
  /\ Len(results) = 2
  /\ Survivors = {}
  /\ status = [algorithm |-> "NotFound", plan |-> "NotFound"]
  /\ algo = UsedConfig
  /\ idx = -1 /\ idx_no_scratch = -1

=============================================================================
